---- MODULE Spec2Model ----
(***************************************************************************)
(* Fog of War Chess (src/Chess-Portfolio.py): the ChessVar game object,    *)
(* its make_move / get_board operations and the valid_move predicate of    *)
(* every piece class.                                                      *)
(*                                                                         *)
(* Python values are modelled as follows.                                  *)
(*   - a piece object is a two-letter string, its color (w, b) and its     *)
(*     symbol: "wP" is Pawn('white'); the empty cell (Python None) is the  *)
(*     string None; the board is a tuple of 8 rows of 8 cells, row 0 of    *)
(*     the code being the first;                                           *)
(*   - a position is a record [type, row, col] whose type is "list" or     *)
(*     "tuple": Python compares a list and a tuple as unequal whatever     *)
(*     they hold, and the code passes lists from make_move and tuples from *)
(*     get_board;                                                          *)
(*   - the value a call returns is one of the strings "True", "False",     *)
(*     "None" (a fall-through without return), or the name of the          *)
(*     exception that ends the call ("IndexError", "ValueError");          *)
(*   - list indexing follows Python: an index in -8..-1 counts from the    *)
(*     end, any other index outside 0..7 raises IndexError.                *)
(***************************************************************************)
EXTENDS Integers, Sequences, FiniteSets, TLC

VARIABLES
    board,   \* ChessVar._board : 8 rows of 8 cells
    state,   \* ChessVar._state
    turn,    \* ChessVar._turn
    call,    \* the last operation called (and the perspective of a get_board)
    ret,     \* what the last make_move call returned (or the exception it raised)
    grid,    \* what the last get_board call returned
    pre,     \* board, state and turn as they were when the last call began
    nmoves,  \* number of accepted make_move calls so far
    probe,   \* a piece, its square and the sequence type of a valid_move scan
    legal    \* valid_move's result for every target square of the scan

vars == <<board, state, turn, call, ret, grid, pre, nmoves, probe, legal>>

----------------------------------------------------------------------------
(* Bounds of the model *)

\* accepted make_move calls explored from the starting position
MaxMoves == 5

\* pieces other than the scanned one on a board of the valid_move scan
MaxOthers == 1

----------------------------------------------------------------------------
(* Values *)

Rows == 0..7
Cols == 0..7

None == "--"

\* ChessPiece(color, symbol)
Piece(col, sym) == (IF col = "white" THEN "w" ELSE "b") \o sym

\* piece._color
color(piece) ==
    CASE piece \in {"wP", "wR", "wN", "wB", "wQ", "wK"} -> "white"
      [] piece \in {"bP", "bR", "bN", "bB", "bQ", "bK"} -> "black"
      [] OTHER -> "none"

\* piece._symbol
symbol(piece) ==
    CASE piece \in {"wP", "bP"} -> "P" [] piece \in {"wR", "bR"} -> "R"
      [] piece \in {"wN", "bN"} -> "N" [] piece \in {"wB", "bB"} -> "B"
      [] piece \in {"wQ", "bQ"} -> "Q" [] piece \in {"wK", "bK"} -> "K"
      [] OTHER -> " "

Pawn(col) == Piece(col, "P")

Rook(col) == Piece(col, "R")

Bishop(col) == Piece(col, "B")

Knight(col) == Piece(col, "N")

Queen(col) == Piece(col, "Q")

King(col) == Piece(col, "K")

get_symbol(piece) == symbol(piece)

get_color(piece) == color(piece)

List(r, c) == [type |-> "list", row |-> r, col |-> c]

Tuple(r, c) == [type |-> "tuple", row |-> r, col |-> c]

\* str.lower() / str.upper() on the one-letter piece symbols
lower(s) ==
    CASE s = "P" -> "p" [] s = "R" -> "r" [] s = "N" -> "n"
      [] s = "B" -> "b" [] s = "Q" -> "q" [] s = "K" -> "k"
      [] OTHER -> s

upper(s) ==
    CASE s = "p" -> "P" [] s = "r" -> "R" [] s = "n" -> "N"
      [] s = "b" -> "B" [] s = "q" -> "Q" [] s = "k" -> "K"
      [] OTHER -> s

\* Python list indexing on a list of length 8
IndexOK(i) == i \in -8..7

Norm(i) == IF i < 0 THEN i + 8 ELSE i

\* board[r][c]; the caller has checked IndexOK
Cell(b, r, c) == b[Norm(r) + 1][Norm(c) + 1]

\* board[r][c] = v
SetCell(b, r, c, v) == [b EXCEPT ![Norm(r) + 1][Norm(c) + 1] = v]

\* 0 <= current_row < 8 and 0 <= current_col < 8
OnBoard(r, c) == 0 <= r /\ r < 8 /\ 0 <= c /\ c < 8

abs(x) == IF x < 0 THEN -x ELSE x

----------------------------------------------------------------------------
(* Pawn.valid_move *)

\* Pawn.valid_move without the test current_row == start_row
Pawn_valid_move_any_rank(self, cur_pos, next_pos, b) ==
    LET direction == IF color(self) = "white" THEN -1 ELSE 1
        current_row == cur_pos.row
        current_col == cur_pos.col
        next_row == next_pos.row
        next_col == next_pos.col
        single == current_col = next_col /\ next_row = current_row + direction
        double == /\ current_col = next_col
                  /\ next_row = current_row + direction + direction
                  /\ IndexOK(next_row)
        diag == abs(current_col - next_col) = 1 /\ next_row = current_row + direction
    IN  IF single /\ ~IndexOK(next_row) THEN "IndexError"
        ELSE IF single /\ Cell(b, next_row, next_col) = None
        THEN (IF ~OnBoard(current_row, current_col) THEN "False" ELSE "True")
        ELSE IF double /\ Cell(b, current_row + direction, current_col) = None
                       /\ Cell(b, next_row, next_col) = None
        THEN (IF ~OnBoard(current_row, current_col) THEN "False" ELSE "True")
        ELSE IF diag /\ ~IndexOK(next_row) THEN "IndexError"
        ELSE IF diag /\ Cell(b, next_row, next_col) # None
                     /\ get_color(Cell(b, next_row, next_col)) # color(self)
        THEN "True"
        ELSE "False"

\* Pawn.valid_move with the diagonal step allowed onto any square
Pawn_valid_move_diag_any(self, cur_pos, next_pos, b) ==
    LET direction == IF color(self) = "white" THEN -1 ELSE 1
        start_row == IF color(self) = "white" THEN 6 ELSE 1
        current_row == cur_pos.row
        current_col == cur_pos.col
        next_row == next_pos.row
        next_col == next_pos.col
        single == current_col = next_col /\ next_row = current_row + direction
        double == /\ current_col = next_col
                  /\ current_row = start_row
                  /\ next_row = current_row + direction + direction
        diag == abs(current_col - next_col) = 1 /\ next_row = current_row + direction
    IN  IF single /\ ~IndexOK(next_row) THEN "IndexError"
        ELSE IF single /\ Cell(b, next_row, next_col) = None
        THEN (IF ~OnBoard(current_row, current_col) THEN "False" ELSE "True")
        ELSE IF double /\ Cell(b, current_row + direction, current_col) = None
                       /\ Cell(b, next_row, next_col) = None
        THEN (IF ~OnBoard(current_row, current_col) THEN "False" ELSE "True")
        ELSE IF diag /\ ~IndexOK(next_row) THEN "IndexError"
        ELSE IF diag THEN "True"
        ELSE "False"

Pawn_valid_move(self, cur_pos, next_pos, b) ==
    LET direction == IF color(self) = "white" THEN -1 ELSE 1
        start_row == IF color(self) = "white" THEN 6 ELSE 1
        current_row == cur_pos.row
        current_col == cur_pos.col
        next_row == next_pos.row
        next_col == next_pos.col
        single == current_col = next_col /\ next_row = current_row + direction
        double == /\ current_col = next_col
                  /\ current_row = start_row
                  /\ next_row = current_row + direction + direction
        diag == abs(current_col - next_col) = 1 /\ next_row = current_row + direction
    IN  IF single /\ ~IndexOK(next_row) THEN "IndexError"
        ELSE IF single /\ Cell(b, next_row, next_col) = None
        THEN (IF ~OnBoard(current_row, current_col) THEN "False" ELSE "True")
        ELSE IF double /\ Cell(b, current_row + direction, current_col) = None
                       /\ Cell(b, next_row, next_col) = None
        THEN (IF ~OnBoard(current_row, current_col) THEN "False" ELSE "True")
        ELSE IF diag /\ ~IndexOK(next_row) THEN "IndexError"
        ELSE IF diag /\ Cell(b, next_row, next_col) # None
                     /\ get_color(Cell(b, next_row, next_col)) # color(self)
        THEN "True"
        ELSE "False"

----------------------------------------------------------------------------
(* The sliding loop of Rook, Bishop and Queen:                             *)
(*   while cur_pos != next_pos: step; leave the board -> False;            *)
(*   an occupied square that is not next_pos -> False.                     *)
(* cur_pos is rebound to a list after the first step, so the comparison    *)
(* with next_pos is between a list and whatever the caller passed.         *)

RECURSIVE Slide(_, _, _, _, _)
Slide(cur_pos, next_pos, row_step, col_step, b) ==
    IF cur_pos = next_pos THEN "reached"
    ELSE LET current_row == cur_pos.row + row_step
             current_col == cur_pos.col + col_step
             stepped == List(current_row, current_col)
         IN  IF ~OnBoard(current_row, current_col) THEN "False"
             ELSE IF stepped # next_pos /\ Cell(b, current_row, current_col) # None
             THEN "False"
             ELSE Slide(stepped, next_pos, row_step, col_step, b)

\* the target check with the fall-through taken as permission
TargetCheck_permissive(self, next_pos, b) ==
    IF ~IndexOK(next_pos.row) THEN "IndexError" ELSE "True"

\* target_piece = board[next_pos[0]][next_pos[1]] and the two returns after it;
\* "None" is the fall-through when the target is of the mover's color
TargetCheck(self, next_pos, b) ==
    IF ~IndexOK(next_pos.row) THEN "IndexError"
    ELSE IF Cell(b, next_pos.row, next_pos.col) = None THEN "True"
    ELSE IF get_color(Cell(b, next_pos.row, next_pos.col)) # color(self) THEN "True"
    ELSE "None"

RowStep(cur_pos, next_pos) ==
    IF cur_pos.row = next_pos.row THEN 0
    ELSE IF next_pos.row > cur_pos.row THEN 1 ELSE -1

ColStep(cur_pos, next_pos) ==
    IF cur_pos.col = next_pos.col THEN 0
    ELSE IF next_pos.col > cur_pos.col THEN 1 ELSE -1

DiagRowStep(cur_pos, next_pos) == IF next_pos.row > cur_pos.row THEN 1 ELSE -1

DiagColStep(cur_pos, next_pos) == IF next_pos.col > cur_pos.col THEN 1 ELSE -1

Rook_valid_move(self, cur_pos, next_pos, b) ==
    IF cur_pos.row # next_pos.row /\ cur_pos.col # next_pos.col THEN "False"
    ELSE IF Slide(cur_pos, next_pos, RowStep(cur_pos, next_pos),
                  ColStep(cur_pos, next_pos), b) = "False"
    THEN "False"
    ELSE TargetCheck(self, next_pos, b)

Bishop_valid_move(self, cur_pos, next_pos, b) ==
    IF cur_pos.row = next_pos.row \/ cur_pos.col = next_pos.col THEN "False"
    ELSE IF Slide(cur_pos, next_pos, DiagRowStep(cur_pos, next_pos),
                  DiagColStep(cur_pos, next_pos), b) = "False"
    THEN "False"
    ELSE LET t == TargetCheck(self, next_pos, b)
         IN  IF t = "None" THEN "False" ELSE t

\* Queen.valid_move without its diagonal block
Queen_valid_move_straight_only(self, cur_pos, next_pos, b) ==
    IF cur_pos.row = next_pos.row \/ cur_pos.col = next_pos.col
    THEN IF Slide(cur_pos, next_pos, RowStep(cur_pos, next_pos),
                  ColStep(cur_pos, next_pos), b) = "False"
         THEN "False"
         ELSE TargetCheck(self, next_pos, b)
    ELSE "None"

\* The straight block runs when start and target share a row or a column; when
\* it falls through, cur_pos has been rebound to next_pos, so the condition of
\* the diagonal block is false and the method returns None.
Queen_valid_move(self, cur_pos, next_pos, b) ==
    IF cur_pos.row = next_pos.row \/ cur_pos.col = next_pos.col
    THEN IF Slide(cur_pos, next_pos, RowStep(cur_pos, next_pos),
                  ColStep(cur_pos, next_pos), b) = "False"
         THEN "False"
         ELSE TargetCheck(self, next_pos, b)
    ELSE IF Slide(cur_pos, next_pos, DiagRowStep(cur_pos, next_pos),
                  DiagColStep(cur_pos, next_pos), b) = "False"
         THEN "False"
         ELSE TargetCheck(self, next_pos, b)

----------------------------------------------------------------------------
(* Knight.valid_move: eight comparisons of a freshly built list with       *)
(* next_pos, then the target check.                                        *)

KnightOffsets ==
    << <<2, 1>>, <<2, -1>>, <<1, 2>>, <<1, -2>>,
       <<-2, 1>>, <<-2, -1>>, <<-1, 2>>, <<-1, -2>> >>

Knight_valid_move(self, cur_pos, next_pos, b) ==
    IF \A i \in 1..8 :
          List(cur_pos.row + KnightOffsets[i][1], cur_pos.col + KnightOffsets[i][2])
             # next_pos
    THEN "False"
    ELSE TargetCheck(self, next_pos, b)

----------------------------------------------------------------------------
(* King.valid_move: the sliding loop with a step counter; a second step    *)
(* returns False.                                                          *)

RECURSIVE KingSlide(_, _, _, _, _, _)
KingSlide(cur_pos, next_pos, row_step, col_step, b, moves) ==
    IF cur_pos = next_pos THEN "reached"
    ELSE LET current_row == cur_pos.row + row_step
             current_col == cur_pos.col + col_step
             stepped == List(current_row, current_col)
         IN  IF ~OnBoard(current_row, current_col) THEN "False"
             ELSE IF (stepped # next_pos /\ Cell(b, current_row, current_col) # None)
                     \/ moves + 1 > 1
             THEN "False"
             ELSE KingSlide(stepped, next_pos, row_step, col_step, b, moves + 1)

King_valid_move(self, cur_pos, next_pos, b) ==
    IF cur_pos.row = next_pos.row \/ cur_pos.col = next_pos.col
    THEN IF KingSlide(cur_pos, next_pos, RowStep(cur_pos, next_pos),
                      ColStep(cur_pos, next_pos), b, 0) = "False"
         THEN "False"
         ELSE TargetCheck(self, next_pos, b)
    ELSE IF KingSlide(cur_pos, next_pos, DiagRowStep(cur_pos, next_pos),
                      DiagColStep(cur_pos, next_pos), b, 0) = "False"
         THEN "False"
         ELSE TargetCheck(self, next_pos, b)

\* piece.valid_move(cur_pos, next_pos, board): dispatch on the piece's class
valid_move(self, cur_pos, next_pos, b) ==
    CASE symbol(self) = "P" -> Pawn_valid_move(self, cur_pos, next_pos, b)
      [] symbol(self) = "R" -> Rook_valid_move(self, cur_pos, next_pos, b)
      [] symbol(self) = "N" -> Knight_valid_move(self, cur_pos, next_pos, b)
      [] symbol(self) = "B" -> Bishop_valid_move(self, cur_pos, next_pos, b)
      [] symbol(self) = "Q" -> Queen_valid_move(self, cur_pos, next_pos, b)
      [] symbol(self) = "K" -> King_valid_move(self, cur_pos, next_pos, b)

----------------------------------------------------------------------------
(* ChessVar.initialize_pieces *)

EmptyBoard == [r \in 1..8 |-> [c \in 1..8 |-> None]]

\* place_piece(row, col, piece) for every col of a row
PlaceRow(b, row, pieces) == [b EXCEPT ![row + 1] = pieces]

PawnRow(col) == [c \in 1..8 |-> Pawn(col)]

\* the back rank with King and Queen on each other's files
BackRank_swapped(col) ==
    << Rook(col), Knight(col), Bishop(col), King(col),
       Queen(col), Bishop(col), Knight(col), Rook(col) >>

BackRank(col) ==
    << Rook(col), Knight(col), Bishop(col), Queen(col),
       King(col), Bishop(col), Knight(col), Rook(col) >>

initialize_pieces ==
    PlaceRow(PlaceRow(PlaceRow(PlaceRow(EmptyBoard,
        6, PawnRow("white")), 1, PawnRow("black")),
        7, BackRank("white")), 0, BackRank("black"))

----------------------------------------------------------------------------
(* ChessVar.alg_to_list.  A square reference is the pair of its two        *)
(* characters <<pos[0], pos[1]>>.                                          *)

dictionary ==
    [f \in {"a", "b", "c", "d", "e", "f", "g", "h"} |->
        CASE f = "a" -> 0 [] f = "b" -> 1 [] f = "c" -> 2 [] f = "d" -> 3
          [] f = "e" -> 4 [] f = "f" -> 5 [] f = "g" -> 6 [] f = "h" -> 7]

Digits == {"0", "1", "2", "3", "4", "5", "6", "7", "8", "9"}

\* int(pos[1]) for a digit character
int(ch) ==
    CASE ch = "0" -> 0 [] ch = "1" -> 1 [] ch = "2" -> 2 [] ch = "3" -> 3
      [] ch = "4" -> 4 [] ch = "5" -> 5 [] ch = "6" -> 6 [] ch = "7" -> 7
      [] ch = "8" -> 8 [] ch = "9" -> 9

\* the result is a list [row, col], Python None, or the ValueError int() raises
alg_to_list(pos) ==
    IF pos[1] \in DOMAIN dictionary
    THEN IF pos[2] \in Digits
         THEN List(8 - int(pos[2]), dictionary[pos[1]])
         ELSE [type |-> "ValueError", row |-> 0, col |-> 0]
    ELSE [type |-> "None", row |-> 0, col |-> 0]

----------------------------------------------------------------------------
(* ChessVar.make_move *)

\* the turn left as it is
NextTurn_stuck(tn) == tn

\* self._turn = 'black' if self._turn == 'white' else 'white'
NextTurn(tn) == IF tn = "white" THEN "black" ELSE "white"

\* the admitting condition without the test of the piece's color
Admits_any_color(piece, tn, v) == v = "True"

\* the elif condition that admits a move: the piece is of the color to move
\* and its valid_move returned a true value
Admits(piece, tn, v) == get_color(piece) = tn /\ v = "True"

\* the outcome left as it was when a King is taken
StateAfter_ignores_King(st, target) == st

\* the outcome named after the color of the captured King
StateAfter_by_color(st, target) ==
    IF target # None /\ get_symbol(target) = "K" /\ get_color(target) = "black"
    THEN "WHITE WINS"
    ELSE IF target # None /\ get_symbol(target) = "K" THEN "BLACK WINS"
    ELSE st

\* the value of self._state after a move onto a square that held target
StateAfter(st, target) ==
    IF target # None /\ get_symbol(target) = "k" THEN "WHITE WINS"
    ELSE IF target # None /\ get_symbol(target) = "K" THEN "BLACK WINS"
    ELSE st

\* the value of self._turn after a move onto a square that held target
TurnAfter(tn, target) ==
    IF target # None /\ get_symbol(target) \in {"k", "K"} THEN tn
    ELSE NextTurn(tn)

\* board[next] = piece, the start square left as it was
MovePiece_copy(b, current, next_spot, piece) ==
    SetCell(b, next_spot.row, next_spot.col, piece)

\* board[next] = piece, then board[current] = None
MovePiece(b, current, next_spot, piece) ==
    SetCell(SetCell(b, next_spot.row, next_spot.col, piece),
            current.row, current.col, None)

Outcome(b, st, tn, r) == [board |-> b, state |-> st, turn |-> tn, ret |-> r]

\* the whole method: the state it leaves and the value it returns
make_move(b, st, tn, cur_pos, next_pos) ==
    LET current == alg_to_list(cur_pos)
        next_spot == alg_to_list(next_pos)
    IN  IF current.type = "ValueError" \/ next_spot.type = "ValueError"
        THEN Outcome(b, st, tn, "ValueError")
        ELSE IF current.type = "None" \/ next_spot.type = "None"
        THEN Outcome(b, st, tn, "None")
        ELSE IF ~IndexOK(current.row)
        THEN Outcome(b, st, tn, "IndexError")
        ELSE LET piece == Cell(b, current.row, current.col)
                 v == valid_move(piece, current, next_spot, b)
                 target == Cell(b, next_spot.row, next_spot.col)
             IN  IF piece = None THEN Outcome(b, st, tn, "False")
                 ELSE IF get_color(piece) = tn /\ v = "IndexError"
                 THEN Outcome(b, st, tn, "IndexError")
                 ELSE IF Admits(piece, tn, v)
                 THEN Outcome(MovePiece(b, current, next_spot, piece),
                              StateAfter(st, target), TurnAfter(tn, target), "True")
                 ELSE Outcome(b, st, tn, "False")

----------------------------------------------------------------------------
(* ChessVar.get_game_state *)

\* return self._state
get_game_state(st) == st

----------------------------------------------------------------------------
(* ChessVar.get_board *)

Squares == Rows \X Cols

\* the set built by the first pair of loops; positions are passed as tuples
capturable_positions(b, perspective) ==
    { n \in Squares :
        \E s \in Squares :
            LET piece == Cell(b, s[1], s[2])
                target_piece == Cell(b, n[1], n[2])
            IN  /\ piece # None
                /\ color(piece) = perspective
                /\ valid_move(piece, Tuple(s[1], s[2]), Tuple(n[1], n[2]), b) = "True"
                /\ target_piece # None
                /\ get_color(target_piece) # get_color(piece) }

\* the symbol of an occupied square by color: lower case for black
Symbol(piece) ==
    IF color(piece) = "black" THEN lower(symbol(piece)) ELSE upper(symbol(piece))

\* get_board without the audience branch
get_board_fog_for_all(b, perspective) ==
    LET cap == capturable_positions(b, perspective)
    IN  [r \in 1..8 |-> [c \in 1..8 |->
            LET row == r - 1
                col == c - 1
                piece == Cell(b, row, col)
            IN  IF piece # None
                THEN IF color(piece) = perspective \/ <<row, col>> \in cap
                     THEN Symbol(piece)
                     ELSE "*"
                ELSE " "]]

\* get_board showing a side only what it can capture, its own pieces hidden
get_board_hides_own(b, perspective) ==
    LET cap == capturable_positions(b, perspective)
    IN  [r \in 1..8 |-> [c \in 1..8 |->
            LET row == r - 1
                col == c - 1
                piece == Cell(b, row, col)
            IN  IF piece # None
                THEN IF perspective = "audience" THEN Symbol(piece)
                     ELSE IF <<row, col>> \in cap
                          THEN Symbol(piece)
                          ELSE "*"
                ELSE " "]]

get_board(b, perspective) ==
    LET cap == capturable_positions(b, perspective)
    IN  [r \in 1..8 |-> [c \in 1..8 |->
            LET row == r - 1
                col == c - 1
                piece == Cell(b, row, col)
            IN  IF piece # None
                THEN IF perspective = "audience" THEN Symbol(piece)
                     ELSE IF color(piece) = perspective \/ <<row, col>> \in cap
                          THEN Symbol(piece)
                          ELSE "*"
                ELSE " "]]

----------------------------------------------------------------------------
(* The game: a ChessVar object and the calls made on it *)

\* on-board square references given to make_move: the squares of the two
\* shortest King captures and of the Queen sortie d1-h5, and a Knight's square
BoardRefs ==
    { <<"e", "2">>, <<"e", "4">>, <<"e", "7">>, <<"e", "5">>, <<"d", "1">>,
      <<"h", "5">>, <<"f", "7">>, <<"f", "6">>, <<"e", "8">>,
      <<"f", "2">>, <<"f", "3">>, <<"d", "8">>, <<"h", "4">>, <<"e", "1">>,
      <<"g", "1">> }

\* references off the board: rank 9, rank 0, file i, and a rank that is no digit
OffBoardRefs == { <<"e", "9">>, <<"e", "0">>, <<"i", "5">>, <<"e", "x">> }

InputSquares == BoardRefs \cup OffBoardRefs

Perspectives == {"white", "black", "audience"}

NoCall == [op |-> "none", perspective |-> "-"]

NoGrid == <<>>

NoProbe == [self |-> None, cur |-> <<0, 0>>, type |-> "-"]

NoLegal == <<>>

Snapshot == [board |-> board, state |-> state, turn |-> turn]

Init ==
    /\ board = initialize_pieces
    /\ state = "UNFINISHED"
    /\ turn = "white"
    /\ call = NoCall
    /\ ret = "-"
    /\ grid = NoGrid
    /\ pre = [board |-> initialize_pieces, state |-> "UNFINISHED", turn |-> "white"]
    /\ nmoves = 0
    /\ probe = NoProbe
    /\ legal = NoLegal

MakeMove(cur_pos, next_pos) ==
    /\ probe = NoProbe
    /\ nmoves < MaxMoves
    /\ LET r == make_move(board, state, turn, cur_pos, next_pos)
       IN  /\ board' = r.board
           /\ state' = r.state
           /\ turn' = r.turn
           /\ ret' = r.ret
           /\ nmoves' = IF r.ret = "True" THEN nmoves + 1 ELSE nmoves
    /\ call' = [op |-> "make_move", perspective |-> "-"]
    /\ pre' = Snapshot
    /\ grid' = NoGrid
    /\ UNCHANGED <<probe, legal>>

\* get_board ending the turn of the side that looked
GetBoard_ends_turn(perspective) ==
    /\ probe = NoProbe
    /\ grid' = get_board(board, perspective)
    /\ call' = [op |-> "get_board", perspective |-> perspective]
    /\ pre' = Snapshot
    /\ ret' = "-"
    /\ turn' = NextTurn(turn)
    /\ UNCHANGED <<board, state, nmoves, probe, legal>>

GetBoard(perspective) ==
    /\ probe = NoProbe
    /\ grid' = get_board(board, perspective)
    /\ call' = [op |-> "get_board", perspective |-> perspective]
    /\ pre' = Snapshot
    /\ ret' = "-"
    /\ UNCHANGED <<board, state, turn, nmoves, probe, legal>>

\* a make_move call between two squares of the board
Play == \E cur_pos \in BoardRefs, next_pos \in BoardRefs : MakeMove(cur_pos, next_pos)

\* a make_move call with a reference off the board
PlayOff ==
    \E cur_pos \in InputSquares, next_pos \in InputSquares :
        /\ cur_pos \in OffBoardRefs \/ next_pos \in OffBoardRefs
        /\ MakeMove(cur_pos, next_pos)

Look == \E perspective \in Perspectives : GetBoard(perspective)

Next == Play \/ PlayOff \/ Look

Spec == Init /\ [][Next]_vars

\* the game with every reference on the board
NextOnBoard == Play \/ Look

SpecOnBoard == Init /\ [][NextOnBoard]_vars

----------------------------------------------------------------------------
(* valid_move as a function of its arguments: a piece on a square of a     *)
(* sparse board, asked about every target square, with positions passed    *)
(* as lists (as make_move passes them) or as tuples (as get_board does).   *)

Colors == {"white", "black"}

AllPieces ==
    { Piece(col, sym) : col \in Colors, sym \in {"P", "R", "N", "B", "Q", "K"} }

\* squares the scanned piece stands on: both pawn starting ranks, the middle
\* of the board, and squares on the edge and in the corner
ScanFrom == { <<6, 1>>, <<1, 1>>, <<4, 1>>, <<3, 2>>, <<7, 0>>, <<0, 2>> }

\* squares the other pieces stand on: the three left-hand files
OtherSquares == Rows \X (0..2)

\* valid_move reads nothing of another piece but its color
OtherPieces == { Pawn("white"), Pawn("black") }

\* the boards that hold b's pieces and at most k more
RECURSIVE BoardsWith(_, _)
BoardsWith(b, k) ==
    IF k = 0 THEN {b}
    ELSE LET fewer == BoardsWith(b, k - 1)
         IN  fewer \cup
             UNION { { SetCell(x, sq[1], sq[2], p) :
                         p \in OtherPieces,
                         sq \in { q \in OtherSquares : Cell(x, q[1], q[2]) = None } } :
                     x \in fewer }

Pos(type, r, c) == IF type = "list" THEN List(r, c) ELSE Tuple(r, c)

InitScan ==
    /\ \E self \in AllPieces, cur \in ScanFrom, type \in {"list", "tuple"} :
          /\ probe = [self |-> self, cur |-> cur, type |-> type]
          /\ board \in BoardsWith(SetCell(EmptyBoard, cur[1], cur[2], self), MaxOthers)
    /\ legal = NoLegal
    /\ state = "UNFINISHED"
    /\ turn = "white"
    /\ call = NoCall
    /\ ret = "-"
    /\ grid = NoGrid
    /\ pre = [board |-> EmptyBoard, state |-> "UNFINISHED", turn |-> "white"]
    /\ nmoves = 0

\* the scanned piece's valid_move for every target square of the board
ScanMoves ==
    /\ probe # NoProbe
    /\ legal = NoLegal
    /\ legal' = [r \in 1..8 |-> [c \in 1..8 |->
                    valid_move(probe.self,
                               Pos(probe.type, probe.cur[1], probe.cur[2]),
                               Pos(probe.type, r - 1, c - 1), board)]]
    /\ UNCHANGED <<board, state, turn, call, ret, grid, pre, nmoves, probe>>

NextScan == ScanMoves

SpecScan == InitScan /\ [][NextScan]_vars

\* the game between squares of the board and the scan, side by side
SpecAll == (Init \/ InitScan) /\ [][Play \/ Look \/ ScanMoves]_vars

----------------------------------------------------------------------------
(* Vocabulary of the properties *)

FileNames == <<"a", "b", "c", "d", "e", "f", "g", "h">>

RankNames == <<"8", "7", "6", "5", "4", "3", "2", "1">>

\* a reference to a square of the board: file a-h and rank 1-8
OnBoardRef(pos) ==
    /\ \E i \in 1..8 : FileNames[i] = pos[1]
    /\ \E i \in 1..8 : RankNames[i] = pos[2]

\* the square <<row, col>> an on-board reference names: rank 8 is row 0
SquareOf(pos) ==
    << (CHOOSE i \in 1..8 : RankNames[i] = pos[2]) - 1,
       (CHOOSE i \in 1..8 : FileNames[i] = pos[1]) - 1 >>

\* the reference that names a square
RefOf(sq) == << FileNames[sq[2] + 1], RankNames[sq[1] + 1] >>

\* the cell of a square in a board or in a rendered grid
At(b, sq) == b[sq[1] + 1][sq[2] + 1]

Opponent(col) == IF col = "white" THEN "black" ELSE "white"

\* the outcome values that say a color has won
WinFor(col) ==
    IF col = "white" THEN {"WHITE WINS", "WHITE_WON"} ELSE {"BLACK WINS", "BLACK_WON"}

KingCount(b) == Cardinality({ sq \in Squares : At(b, sq) \in {"wK", "bK"} })

PieceCount(b, col) == Cardinality({ sq \in Squares : color(At(b, sq)) = col })

\* the symbol that shows a piece as it is: upper case for white
TrueSymbol(piece) ==
    CASE piece = "wP" -> "P" [] piece = "wR" -> "R" [] piece = "wN" -> "N"
      [] piece = "wB" -> "B" [] piece = "wQ" -> "Q" [] piece = "wK" -> "K"
      [] piece = "bP" -> "p" [] piece = "bR" -> "r" [] piece = "bN" -> "n"
      [] piece = "bB" -> "b" [] piece = "bQ" -> "q" [] piece = "bK" -> "k"

\* the call left board, turn and outcome as they were
Untouched(r) == r.board = board /\ r.turn = turn /\ r.state = state

sgn(x) == IF x > 0 THEN 1 ELSE IF x < 0 THEN -1 ELSE 0

Straight(a, n) == a # n /\ (a[1] = n[1] \/ a[2] = n[2])

Diagonal(a, n) == a # n /\ abs(a[1] - n[1]) = abs(a[2] - n[2])

\* the squares strictly between two squares of one line
Between(a, n) ==
    LET len == IF abs(n[1] - a[1]) > abs(n[2] - a[2])
               THEN abs(n[1] - a[1]) ELSE abs(n[2] - a[2])
    IN  { << a[1] + k * sgn(n[1] - a[1]), a[2] + k * sgn(n[2] - a[2]) >> :
            k \in 1..(len - 1) }

\* the target is on a line the piece travels
LineOfTravel(sym, a, n) ==
    CASE sym = "R" -> Straight(a, n)
      [] sym = "B" -> Diagonal(a, n)
      [] sym = "Q" -> Straight(a, n) \/ Diagonal(a, n)
      [] OTHER -> FALSE

\* a scan has been made
Scanned == legal # NoLegal

----------------------------------------------------------------------------
(* C1: in an in-progress game, an accepted make_move between on-board      *)
(* squares that lands on the opponent's King makes the outcome the mover's *)
(* win and does not flip the turn.                                         *)

C1_KingCaptureWinsForMover ==
    ( /\ call.op = "make_move"
      /\ ret = "True"
      /\ pre.state = "UNFINISHED"
      /\ \E sq \in Squares :
            /\ At(pre.board, sq) = King(Opponent(pre.turn))
            /\ At(board, sq) # King(Opponent(pre.turn)) )
        => (state \in WinFor(pre.turn) /\ turn = pre.turn)

(* C2: once the outcome is no longer in progress, every make_move call is  *)
(* rejected and leaves board, turn and outcome unchanged.                  *)

C2_NoMoveAfterTerminal ==
    state # "UNFINISHED" =>
        \A cur_pos \in InputSquares, next_pos \in InputSquares :
            LET r == make_move(board, state, turn, cur_pos, next_pos)
            IN  r.ret # "True" /\ Untouched(r)

(* C3: get_board for white or black shows an opposing piece's true symbol  *)
(* exactly when some piece of the perspective's color has a capturing move *)
(* onto its square that make_move would accept for that side; otherwise    *)
(* the square shows '*'.                                                   *)

CapturableBy(col, sq) ==
    \E from \in Squares :
        /\ color(At(board, from)) = col
        /\ make_move(board, state, col, RefOf(from), RefOf(sq)).ret = "True"

C3_FogShowsExactlyCapturable ==
    (call.op = "get_board" /\ call.perspective \in Colors) =>
        \A sq \in Squares :
            color(At(board, sq)) = Opponent(call.perspective) =>
                At(grid, sq) = IF CapturableBy(call.perspective, sq)
                               THEN TrueSymbol(At(board, sq))
                               ELSE "*"

(* C4: an accepted make_move that captures no King flips the side to move, *)
(* a rejected make_move leaves it, and the turn changes in no other way.   *)

C4_TurnFlipsOnlyOnAcceptedMove ==
    /\ \A cur_pos \in InputSquares, next_pos \in InputSquares :
          LET r == make_move(board, state, turn, cur_pos, next_pos)
          IN  /\ (r.ret = "True" /\ KingCount(r.board) = KingCount(board))
                    => r.turn = Opponent(turn)
              /\ r.ret # "True" => r.turn = turn
    /\ turn # pre.turn =>
          /\ call.op = "make_move"
          /\ ret = "True"
          /\ KingCount(board) = KingCount(pre.board)

\* black has just made the second move of a game, and it is white's turn
C4_Witness ==
    /\ call.op = "make_move"
    /\ ret = "True"
    /\ nmoves = 2
    /\ pre.turn = "black"
    /\ turn = "white"
    /\ KingCount(board) = 2

(* C5: a make_move call between on-board squares returns False and leaves  *)
(* board, turn and outcome as they were whenever the start square is       *)
(* empty, its piece is not of the color to move, or the piece's valid_move *)
(* rejects the pair on the current board.                                  *)

C5_IllegalMoveRejected ==
    \A cur_pos \in InputSquares, next_pos \in InputSquares :
        (OnBoardRef(cur_pos) /\ OnBoardRef(next_pos)) =>
            LET r == make_move(board, state, turn, cur_pos, next_pos)
                from == SquareOf(cur_pos)
                to == SquareOf(next_pos)
                piece == At(board, from)
            IN  (\/ piece = None
                 \/ color(piece) # turn
                 \/ valid_move(piece, List(from[1], from[2]),
                               List(to[1], to[2]), board) # "True")
                    => (r.ret = "False" /\ Untouched(r))

\* a call has just been rejected in a game under way, on a board where each
\* of the three reasons for a rejection can be given
C5_Witness ==
    /\ call.op = "make_move"
    /\ ret = "False"
    /\ nmoves >= 1
    /\ Snapshot = pre
    /\ \E cur_pos \in InputSquares :
          OnBoardRef(cur_pos) /\ At(board, SquareOf(cur_pos)) = None
    /\ \E cur_pos \in InputSquares :
          OnBoardRef(cur_pos) /\ color(At(board, SquareOf(cur_pos))) = Opponent(turn)
    /\ \E cur_pos \in InputSquares, next_pos \in InputSquares :
          /\ OnBoardRef(cur_pos) /\ OnBoardRef(next_pos)
          /\ color(At(board, SquareOf(cur_pos))) = turn
          /\ make_move(board, state, turn, cur_pos, next_pos).ret = "False"

(* C6: for every piece kind, on every board, valid_move never reports as   *)
(* legal a move whose target square holds a piece of the mover's own       *)
(* color, and no accepted make_move removes a piece of the mover's color.  *)

C6_NeverOntoOwnPiece ==
    /\ Scanned =>
          \A n \in Squares :
              color(At(board, n)) = color(probe.self) => At(legal, n) # "True"
    /\ probe = NoProbe =>
          /\ \A from \in Squares, to \in Squares :
                (At(board, from) # None
                    /\ color(At(board, to)) = color(At(board, from)))
                    => \A type \in {"list", "tuple"} :
                          valid_move(At(board, from), Pos(type, from[1], from[2]),
                                     Pos(type, to[1], to[2]), board) # "True"
          /\ \A cur_pos \in InputSquares, next_pos \in InputSquares :
                LET r == make_move(board, state, turn, cur_pos, next_pos)
                IN  r.ret = "True"
                        => PieceCount(r.board, turn) = PieceCount(board, turn)

\* a Rook was asked about a square, not its own, that holds a piece of its
\* color and that it reaches along a clear line: the method fell through
C6_Witness ==
    /\ Scanned
    /\ symbol(probe.self) = "R"
    /\ probe.type = "list"
    /\ \E n \in Squares :
          /\ n # probe.cur
          /\ color(At(board, n)) = color(probe.self)
          /\ At(legal, n) = "None"

(* C7: for Rook, Bishop and Queen, on every board, a move is rejected when *)
(* a square strictly between start and target on the line of travel is     *)
(* occupied, and a straight or diagonal move with every intermediate       *)
(* square empty and the target empty or enemy-occupied is accepted.        *)

C7_SlidersStopAtBlockers ==
    (Scanned /\ symbol(probe.self) \in {"R", "B", "Q"}) =>
        \A n \in Squares :
            LineOfTravel(symbol(probe.self), probe.cur, n) =>
                LET blocked == \E m \in Between(probe.cur, n) : At(board, m) # None
                IN  /\ blocked => At(legal, n) # "True"
                    /\ (~blocked /\ color(At(board, n)) # color(probe.self))
                          => At(legal, n) = "True"

(* C8: get_board('audience') has no '*' cell: every occupied square shows  *)
(* its piece's true symbol, upper case for white and lower case for black, *)
(* and every empty square is blank.                                        *)

C8_AudienceSeesEverything ==
    (call.op = "get_board" /\ call.perspective = "audience") =>
        \A sq \in Squares :
            /\ At(grid, sq) # "*"
            /\ At(grid, sq) = IF At(board, sq) = None THEN " "
                              ELSE TrueSymbol(At(board, sq))

\* the audience looks at a game two moves in, after a piece has been taken
C8_Witness ==
    /\ call.op = "get_board"
    /\ call.perspective = "audience"
    /\ nmoves >= 2
    /\ PieceCount(board, "white") + PieceCount(board, "black") < 32
    /\ \E sq \in Squares : color(At(board, sq)) = "black" /\ At(grid, sq) # "*"

(* C9: a make_move call in which either reference is off the board (file   *)
(* not a-h or rank not 1-8) is never accepted and changes neither board    *)
(* nor turn nor outcome.                                                   *)

C9_OffBoardNeverAccepted ==
    [][PlayOff => (ret' # "True" /\ UNCHANGED <<board, turn, state>>)]_vars

(* C10: a pawn's move two squares along its file is legal exactly when the *)
(* pawn stands on its starting rank (row 6 white, row 1 black), the move   *)
(* is toward the opponent, and the intermediate and the destination square *)
(* are both empty.                                                         *)

C10_PawnDoubleStep ==
    (Scanned /\ symbol(probe.self) = "P") =>
        \A n \in Squares :
            (n[2] = probe.cur[2] /\ abs(n[1] - probe.cur[1]) = 2) =>
                LET direction == IF color(probe.self) = "white" THEN -1 ELSE 1
                    start_row == IF color(probe.self) = "white" THEN 6 ELSE 1
                    mid == << probe.cur[1] + direction, probe.cur[2] >>
                IN  At(legal, n) = "True"
                        <=> /\ probe.cur[1] = start_row
                            /\ n[1] = probe.cur[1] + 2 * direction
                            /\ At(board, mid) = None
                            /\ At(board, n) = None

\* a white pawn off its starting rank, the two squares ahead of it empty,
\* was asked about the square two ahead and refused
C10_Witness ==
    /\ Scanned
    /\ probe.self = Pawn("white")
    /\ probe.cur = <<4, 1>>
    /\ At(board, <<3, 1>>) = None
    /\ At(board, <<2, 1>>) = None
    /\ At(legal, <<2, 1>>) = "False"

(* C11: a pawn's one-step forward-diagonal move is legal exactly when the  *)
(* destination holds a piece of the opposing color, and a pawn's straight  *)
(* forward step is never legal onto an occupied square.                    *)

C11_PawnDiagonalOnlyCaptures ==
    (Scanned /\ symbol(probe.self) = "P") =>
        LET direction == IF color(probe.self) = "white" THEN -1 ELSE 1
        IN  \A n \in Squares :
                n[1] = probe.cur[1] + direction =>
                    /\ abs(n[2] - probe.cur[2]) = 1 =>
                          (At(legal, n) = "True"
                              <=> color(At(board, n)) = Opponent(color(probe.self)))
                    /\ (n[2] = probe.cur[2] /\ At(board, n) # None)
                          => At(legal, n) # "True"

\* a white pawn was asked about its two diagonal squares: the one holding a
\* black piece was granted, the empty one refused
C11_Witness ==
    /\ Scanned
    /\ probe.self = Pawn("white")
    /\ probe.cur = <<4, 1>>
    /\ At(board, <<3, 0>>) = Pawn("black")
    /\ At(legal, <<3, 0>>) = "True"
    /\ At(board, <<3, 2>>) = None
    /\ At(legal, <<3, 2>>) = "False"

(* C12: for every piece kind, on every board, a move whose start and       *)
(* target are the same square is illegal: valid_move does not report it    *)
(* legal, and make_move rejects it and changes neither board, turn nor     *)
(* outcome.                                                                *)

C12_ZeroLengthMoveIllegal ==
    /\ Scanned => At(legal, probe.cur) # "True"
    /\ probe = NoProbe =>
          \A cur_pos \in { RefOf(sq) : sq \in Squares } \cup OffBoardRefs :
              LET r == make_move(board, state, turn, cur_pos, cur_pos)
              IN  r.ret # "True" /\ Untouched(r)

\* a King was asked about the square it stands on: no step was taken and
\* the target check fell through
C12_Witness ==
    /\ Scanned
    /\ symbol(probe.self) = "K"
    /\ probe.type = "list"
    /\ At(legal, probe.cur) = "None"

(* C13: the outcome is absorbing: once it has left the in-progress value,  *)
(* no make_move call returns it to in-progress or changes it to the other  *)
(* side's win.                                                             *)

C13_OutcomeAbsorbing ==
    /\ pre.state # "UNFINISHED" => state = pre.state
    /\ state # "UNFINISHED" =>
          \A cur_pos \in InputSquares, next_pos \in InputSquares :
              make_move(board, state, turn, cur_pos, next_pos).state = state

\* a King has been captured in a game whose outcome was already decided
C13_Witness ==
    /\ call.op = "make_move"
    /\ ret = "True"
    /\ pre.state # "UNFINISHED"
    /\ KingCount(board) < KingCount(pre.board)

(* C14: from the starting position make_move('e2','e4'), then              *)
(* make_move('e7','e5'), then make_move('d1','h5') are each accepted; the  *)
(* turn is black after the first and white after the second, and after the *)
(* third the white Queen stands on h5, d1 is empty, the turn is black and  *)
(* the game is still in progress.                                          *)

C14_OpeningScenario ==
    (nmoves = 0 /\ probe = NoProbe) =>
        LET r1 == make_move(board, state, turn, <<"e", "2">>, <<"e", "4">>)
            r2 == make_move(r1.board, r1.state, r1.turn, <<"e", "7">>, <<"e", "5">>)
            r3 == make_move(r2.board, r2.state, r2.turn, <<"d", "1">>, <<"h", "5">>)
        IN  /\ r1.ret = "True" /\ r1.turn = "black"
            /\ r2.ret = "True" /\ r2.turn = "white"
            /\ r3.ret = "True" /\ r3.turn = "black"
            /\ r3.state = "UNFINISHED"
            /\ At(r3.board, SquareOf(<<"h", "5">>)) = Queen("white")
            /\ At(r3.board, SquareOf(<<"d", "1">>)) = None

\* the third accepted move of a game has just put the white Queen on h5,
\* with the white pawn on e4 and the black pawn on e5
C14_Witness ==
    /\ call.op = "make_move"
    /\ ret = "True"
    /\ nmoves = 3
    /\ turn = "black"
    /\ state = "UNFINISHED"
    /\ At(board, SquareOf(<<"h", "5">>)) = Queen("white")
    /\ At(pre.board, SquareOf(<<"d", "1">>)) = Queen("white")
    /\ At(board, SquareOf(<<"d", "1">>)) = None
    /\ At(board, SquareOf(<<"e", "4">>)) = Pawn("white")
    /\ At(board, SquareOf(<<"e", "5">>)) = Pawn("black")

(* C15: in every reachable state get_game_state returns one of the three   *)
(* values the method documents: UNFINISHED, WHITE_WON or BLACK_WON.        *)

C15_DocumentedStateValues ==
    probe = NoProbe =>
        get_game_state(state) \in {"UNFINISHED", "WHITE_WON", "BLACK_WON"}

(* C16: a newly constructed game is in progress with white to move and     *)
(* holds the standard starting layout: the black back rank Rook, Knight,   *)
(* Bishop, Queen, King, Bishop, Knight, Rook on row 0, black pawns on row  *)
(* 1, white pawns on row 6, the white back rank in the same file order on  *)
(* row 7, and rows 2-5 empty.                                              *)

C16_StandardStart ==
    (nmoves = 0 /\ probe = NoProbe) =>
        /\ state = "UNFINISHED"
        /\ turn = "white"
        /\ \A col \in Colors :
              LET back == IF col = "white" THEN 7 ELSE 0
                  front == IF col = "white" THEN 6 ELSE 1
              IN  /\ At(board, <<back, 0>>) = Rook(col)
                  /\ At(board, <<back, 1>>) = Knight(col)
                  /\ At(board, <<back, 2>>) = Bishop(col)
                  /\ At(board, <<back, 3>>) = Queen(col)
                  /\ At(board, <<back, 4>>) = King(col)
                  /\ At(board, <<back, 5>>) = Bishop(col)
                  /\ At(board, <<back, 6>>) = Knight(col)
                  /\ At(board, <<back, 7>>) = Rook(col)
                  /\ \A c \in Cols : At(board, <<front, c>>) = Pawn(col)
        /\ \A r \in 2..5, c \in Cols : At(board, <<r, c>>) = None

\* the audience looks at a game in which no move has been made yet
C16_Witness ==
    /\ nmoves = 0
    /\ call.op = "get_board"
    /\ call.perspective = "audience"
    /\ grid[1] = <<"r", "n", "b", "q", "k", "b", "n", "r">>
    /\ grid[8] = <<"R", "N", "B", "Q", "K", "B", "N", "R">>

(* C17: an accepted make_move(from, to) changes the board in exactly two   *)
(* cells: afterwards from is empty and to holds the piece that stood on    *)
(* from, whatever stood on to is gone, and every other square is as it     *)
(* was.                                                                    *)

C17_MoveChangesTwoCells ==
    probe = NoProbe =>
        \A from \in Squares, to \in Squares :
            LET r == make_move(board, state, turn, RefOf(from), RefOf(to))
            IN  r.ret = "True" =>
                    /\ from # to
                    /\ At(board, from) # None
                    /\ At(r.board, from) = None
                    /\ At(r.board, to) = At(board, from)
                    /\ \A sq \in Squares \ {from, to} : At(r.board, sq) = At(board, sq)

\* a move has just been accepted that took a piece: the two cells changed
\* and the board holds one piece fewer
C17_Witness ==
    /\ call.op = "make_move"
    /\ ret = "True"
    /\ PieceCount(board, "white") + PieceCount(board, "black")
          = PieceCount(pre.board, "white") + PieceCount(pre.board, "black") - 1
    /\ Cardinality({ sq \in Squares : At(board, sq) # At(pre.board, sq) }) = 2

(* C18: a King move is legal exactly when the target is one square away in *)
(* one of the eight directions (row and column deltas at most 1 in         *)
(* absolute value, not both zero) and the target is empty or holds an      *)
(* enemy piece; every other King move is rejected.                         *)

C18_KingOneStep ==
    (Scanned /\ symbol(probe.self) = "K") =>
        \A n \in Squares :
            At(legal, n) = "True"
                <=> /\ n # probe.cur
                    /\ abs(n[1] - probe.cur[1]) <= 1
                    /\ abs(n[2] - probe.cur[2]) <= 1
                    /\ color(At(board, n)) # color(probe.self)

(* C19: for every perspective, a get_board cell is blank exactly when the  *)
(* square is empty, every square holding a piece of the perspective's own  *)
(* color shows that piece's symbol, and '*' appears only on squares held   *)
(* by a piece of the opposing color.                                       *)

C19_RenderCells ==
    call.op = "get_board" =>
        \A sq \in Squares :
            /\ At(grid, sq) = " " <=> At(board, sq) = None
            /\ color(At(board, sq)) = call.perspective
                  => At(grid, sq) = TrueSymbol(At(board, sq))
            /\ At(grid, sq) = "*"
                  => /\ call.perspective \in Colors
                     /\ color(At(board, sq)) = Opponent(call.perspective)

\* black looks at a game under way: it sees its own pieces and a '*' on a
\* white piece, and a piece has been taken
C19_Witness ==
    /\ call.op = "get_board"
    /\ call.perspective = "black"
    /\ nmoves >= 3
    /\ PieceCount(board, "white") + PieceCount(board, "black") < 32
    /\ \E sq \in Squares : color(At(board, sq)) = "white" /\ At(grid, sq) = "*"
    /\ \E sq \in Squares : color(At(board, sq)) = "black" /\ At(grid, sq) = "p"

(* C20: get_board for any perspective, and valid_move of any piece kind    *)
(* for any on-board start and target, leave board, turn and outcome        *)
(* unchanged; so a get_board call put between make_move calls changes      *)
(* neither which moves are accepted nor the states they lead to.           *)

C20_LookingChangesNothing ==
    [][ /\ legal' # legal => UNCHANGED <<board, turn, state>>
        /\ call'.op = "get_board" =>
              /\ UNCHANGED <<board, turn, state>>
              /\ \A cur_pos \in InputSquares, next_pos \in InputSquares :
                    make_move(board', state', turn', cur_pos, next_pos)
                        = make_move(board, state, turn, cur_pos, next_pos) ]_vars

\* a side has looked at the board between two moves of a game: the move
\* before the look was accepted and the state is as that move left it
C20_Witness ==
    /\ call.op = "get_board"
    /\ call.perspective \in Colors
    /\ nmoves >= 2
    /\ nmoves < MaxMoves
    /\ Snapshot = pre
    /\ state = "UNFINISHED"

(* C21: in every state reached from the starting position by make_move     *)
(* calls between on-board squares, while the outcome is in progress the    *)
(* board holds exactly one white King and exactly one black King, and the  *)
(* outcome leaves in-progress only through a move that lands on a King.    *)

C21_BothKingsWhileInProgress ==
    probe = NoProbe =>
        /\ state = "UNFINISHED" =>
              \A col \in Colors :
                  Cardinality({ sq \in Squares : At(board, sq) = King(col) }) = 1
        /\ (pre.state = "UNFINISHED" /\ state # "UNFINISHED") =>
              /\ call.op = "make_move"
              /\ ret = "True"
              /\ \E sq \in Squares :
                    /\ symbol(At(pre.board, sq)) = "K"
                    /\ At(board, sq) # At(pre.board, sq)
                    /\ At(board, sq) # None
        /\ state = "UNFINISHED" =>
              \A cur_pos \in BoardRefs, next_pos \in BoardRefs :
                  LET r == make_move(board, state, turn, cur_pos, next_pos)
                  IN  r.state # "UNFINISHED" =>
                          /\ r.ret = "True"
                          /\ symbol(At(board, SquareOf(next_pos))) = "K"

\* a move has just landed on a King and ended a game that was in progress
C21_Witness ==
    /\ call.op = "make_move"
    /\ ret = "True"
    /\ pre.state = "UNFINISHED"
    /\ state # "UNFINISHED"
    /\ KingCount(pre.board) = 2
    /\ KingCount(board) = 1

====
